---- MODULE Spec2Model ----
(***************************************************************************)
(* Gap-analysis engine of skillmap_engine: the integrated service path     *)
(* (services/skillGapService.js, analyzeSkillGaps) and the standalone      *)
(* gap finder (findSkillGaps), over the shipped skill taxonomy; the pure    *)
(* scorer and resolver applied to chosen inputs; concurrent requests; and  *)
(* the seeding of the skill-embedding collection.                          *)
(*                                                                         *)
(* A JavaScript string is a sequence of one-character strings, so that     *)
(* toLowerCase, replace(/[^\w\s]/g,''), includes and split(/\s+/) are      *)
(* computed character by character.  A JavaScript number that the code     *)
(* obtains as a quotient of two sizes is the pair <<numerator,             *)
(* denominator>>; vector-search scores are hundredths.                     *)
(***************************************************************************)
EXTENDS Integers, Sequences, FiniteSets, TLC

(***************************************************************************)
(* Bounds of the model                                                     *)
(***************************************************************************)
\* neighbours one vector search returns at most (the code asks for 5 or 10)
MaxNeighbours == 2

\* requests of the service in flight at a time
NumRequests == 2

\* runs of the seeding script
MaxSeedRuns == 2

\* calls of createUserProfile in flight together
NumCreators == 2

\* milliseconds Date.now() advances by while the calls run
MaxClock == 1

(***************************************************************************)
(* Strings                                                                 *)
(***************************************************************************)
UpperCaseLetters == <<"A", "B", "C", "D", "E", "F", "G", "H", "I", "J", "K", "L", "M", "N", "O", "P", "Q", "R", "S", "T", "U", "V", "W", "X", "Y", "Z">>

LowerCaseLetters == <<"a", "b", "c", "d", "e", "f", "g", "h", "i", "j", "k", "l", "m", "n", "o", "p", "q", "r", "s", "t", "u", "v", "w", "x", "y", "z">>

Digits == <<"0", "1", "2", "3", "4", "5", "6", "7", "8", "9">>

Range(s) == {s[i] : i \in 1..Len(s)}

\* \w of a JavaScript regular expression: [A-Za-z0-9_]
WordChars ==
    Range(UpperCaseLetters) \cup Range(LowerCaseLetters) \cup Range(Digits) \cup {"_"}

IsWordChar(c) == c \in WordChars

\* \s of a JavaScript regular expression (blank and tab are the ones in use)
IsSpace(c) == c \in {" ", "\t"}

\* the lower-case letter of each upper-case letter
LowerCaseOf ==
    [c \in Range(UpperCaseLetters) |->
        LowerCaseLetters[CHOOSE k \in 1..26 : UpperCaseLetters[k] = c]]

\* String.prototype.toLowerCase
toLowerCase(s) ==
    [i \in 1..Len(s) |-> IF s[i] \in DOMAIN LowerCaseOf THEN LowerCaseOf[s[i]] ELSE s[i]]

\* s.replace(/[^\w\s]/g, '')
stripPunctuation(s) == SelectSeq(s, LAMBDA c : IsWordChar(c) \/ IsSpace(c))

\* String.prototype.includes
includes(s, t) ==
    \E i \in 0..(Len(s) - Len(t)) : \A j \in 1..Len(t) : s[i + j] = t[j]

\* splitWords without the empty pieces
splitWords_dropEmpty(s) ==
    LET n == Len(s)
        IsStart(i) == (i = 1 \/ IsSpace(s[i - 1])) /\ ~IsSpace(s[i])
        EndOf(i) == CHOOSE j \in i..n :
                        /\ \A k \in i..j : ~IsSpace(s[k])
                        /\ (j = n \/ IsSpace(s[j + 1]))
    IN  {SubSeq(s, i, EndOf(i)) : i \in {k \in 1..n : IsStart(k)}}

\* new Set(s.split(/\s+/)): the pieces between maximal runs of blanks; a
\* leading or trailing run, and the empty string, give the empty piece
splitWords(s) ==
    LET n == Len(s)
        IsStart(i) == (i = 1 \/ IsSpace(s[i - 1])) /\ ~IsSpace(s[i])
        EndOf(i) == CHOOSE j \in i..n :
                        /\ \A k \in i..j : ~IsSpace(s[k])
                        /\ (j = n \/ IsSpace(s[j + 1]))
        pieces == {SubSeq(s, i, EndOf(i)) : i \in {k \in 1..n : IsStart(k)}}
        edge == IF n = 0 \/ IsSpace(s[1]) \/ IsSpace(s[n]) THEN {<<>>} ELSE {}
    IN  pieces \cup edge

(***************************************************************************)
(* Numbers                                                                 *)
(***************************************************************************)
\* a < b on quotients <<numerator, denominator>> with positive denominators
Less(a, b) == a[1] * b[2] < b[1] * a[2]

ALIGNMENT_THRESHOLD == <<7, 10>>

(***************************************************************************)
(* The static taxonomy (taxonomy/skill_taxonomy.js); descriptions are      *)
(* copied through unread and are left out.  skill_taxonomy is the array    *)
(* the modules import, shared by all requests of the process.              *)
(***************************************************************************)
VARIABLE skill_taxonomy

skill_taxonomy_js == <<
    [category |-> <<"D", "a", "t", "a", " ", "S", "t", "r", "u", "c", "t", "u", "r", "e", "s", " ", "&", " ", "A", "l", "g", "o", "r", "i", "t", "h", "m", "s", "(", "D", "S", "A", ")">>,
     skills |-> << <<"A", "r", "r", "a", "y", "s", " ", "&", " ", "S", "t", "r", "i", "n", "g", "s">>, <<"L", "i", "n", "k", "e", "d", " ", "L", "i", "s", "t", "s">>, <<"S", "t", "a", "c", "k", "s", " ", "&", " ", "Q", "u", "e", "u", "e", "s">>,
                   <<"T", "r", "e", "e", "s", " ", "&", " ", "G", "r", "a", "p", "h", "s">>, <<"D", "y", "n", "a", "m", "i", "c", " ", "P", "r", "o", "g", "r", "a", "m", "m", "i", "n", "g">>,
                   <<"S", "e", "a", "r", "c", "h", "i", "n", "g", " ", "&", " ", "S", "o", "r", "t", "i", "n", "g">> >>],
    [category |-> <<"W", "e", "b", " ", "D", "e", "v", "e", "l", "o", "p", "m", "e", "n", "t">>,
     skills |-> << <<"H", "T", "M", "L", " ", "a", "n", "d", " ", "C", "S", "S">>, <<"J", "a", "v", "a", "S", "c", "r", "i", "p", "t">>, <<"R", "e", "a", "c", "t">>, <<"N", "e", "x", "t", "j", "s">>,
                   <<"N", "o", "d", "e", "j", "s", " ", "a", "n", "d", " ", "E", "x", "p", "r", "e", "s", "s", "j", "s">>, <<"A", "u", "t", "h", "e", "n", "t", "i", "c", "a", "t", "i", "o", "n">> >>],
    [category |-> <<"D", "a", "t", "a", "b", "a", "s", "e", "s">>,
     skills |-> << <<"S", "Q", "L">>, <<"P", "o", "s", "t", "g", "r", "e", "S", "Q", "L">>, <<"N", "o", "S", "Q", "L", " ", "(", "M", "o", "n", "g", "o", "D", "B", ")">>,
                   <<"O", "R", "M", "s", " ", "(", "P", "r", "i", "s", "m", "a", "/", "S", "Q", "L", "A", "l", "c", "h", "e", "m", "y", ")">> >>],
    [category |-> <<"A", "I", " ", "&", " ", "M", "L">>,
     skills |-> << <<"P", "r", "o", "m", "p", "t", " ", "E", "n", "g", "i", "n", "e", "e", "r", "i", "n", "g">>, <<"R", "A", "G">>, <<"E", "m", "b", "e", "d", "d", "i", "n", "g", "s", " ", "&", " ", "V", "e", "c", "t", "o", "r", " ", "D", "B", "s">>,
                   <<"L", "a", "n", "g", "C", "h", "a", "i", "n">>, <<"O", "p", "e", "n", "A", "I", " ", "A", "s", "s", "i", "s", "t", "a", "n", "t", "s", " ", "A", "P", "I">>,
                   <<"O", "p", "e", "n", " ", "S", "o", "u", "r", "c", "e", " ", "L", "L", "M", "s">> >>],
    [category |-> <<"D", "e", "v", "O", "p", "s", " ", "&", " ", "I", "n", "f", "r", "a">>,
     skills |-> << <<"G", "i", "t", " ", "&", " ", "G", "i", "t", "H", "u", "b">>, <<"C", "I", "/", "C", "D">>, <<"D", "o", "c", "k", "e", "r">>, <<"L", "i", "n", "u", "x", "/", "B", "a", "s", "h">>,
                   <<"M", "o", "n", "i", "t", "o", "r", "i", "n", "g", " ", "&", " ", "L", "o", "g", "s">> >>] >>

(***************************************************************************)
(* String Similarity Scorer                                                *)
(***************************************************************************)
\* calculateStringSimilarity without toLowerCase
calculateStringSimilarity_caseSensitive(str1, str2) ==
    LET s1 == stripPunctuation(str1)
        s2 == stripPunctuation(str2)
        words1 == splitWords(s1)
        words2 == splitWords(s2)
    IN  IF s1 = s2 THEN <<1, 1>>
        ELSE IF includes(s1, s2) \/ includes(s2, s1) THEN <<9, 10>>
        ELSE <<Cardinality(words1 \cap words2), Cardinality(words1 \cup words2)>>

\* calculateStringSimilarity without the containment rule
calculateStringSimilarity_noContainment(str1, str2) ==
    LET s1 == stripPunctuation(toLowerCase(str1))
        s2 == stripPunctuation(toLowerCase(str2))
        words1 == splitWords(s1)
        words2 == splitWords(s2)
    IN  IF s1 = s2 THEN <<1, 1>>
        ELSE <<Cardinality(words1 \cap words2), Cardinality(words1 \cup words2)>>

calculateStringSimilarity(str1, str2) ==
    LET s1 == stripPunctuation(toLowerCase(str1))
        s2 == stripPunctuation(toLowerCase(str2))
        words1 == splitWords(s1)
        words2 == splitWords(s2)
    IN  IF s1 = s2 THEN <<1, 1>>
        ELSE IF includes(s1, s2) \/ includes(s2, s1) THEN <<9, 10>>
        ELSE <<Cardinality(words1 \cap words2), Cardinality(words1 \cup words2)>>

(***************************************************************************)
(* Taxonomy Aligner                                                        *)
(***************************************************************************)
NoCategory == [category |-> <<>>, skills |-> <<>>, null |-> TRUE]

RECURSIVE bestMatchFrom(_, _, _)
\* the loop of findMatchingTaxonomyCategory from taxonomy index i on, with
\* the best match found so far
bestMatchFrom(categoryName, i, best) ==
    IF i > Len(skill_taxonomy) THEN best
    ELSE LET similarity == calculateStringSimilarity(categoryName, skill_taxonomy[i].category)
         IN  IF Less(best.similarity, similarity)
             THEN bestMatchFrom(categoryName, i + 1,
                                [category |-> skill_taxonomy[i], similarity |-> similarity])
             ELSE bestMatchFrom(categoryName, i + 1, best)

\* findMatchingTaxonomyCategory with bestScore starting at 1
findMatchingTaxonomyCategory_bestScoreOne(categoryName) ==
    bestMatchFrom(categoryName, 1, [category |-> NoCategory, similarity |-> <<1, 1>>])

findMatchingTaxonomyCategory(categoryName) ==
    bestMatchFrom(categoryName, 1, [category |-> NoCategory, similarity |-> <<0, 1>>])

(***************************************************************************)
(* Skill Synonym Table                                                     *)
(***************************************************************************)
variations == <<
    [key |-> <<"j", "a", "v", "a", "s", "c", "r", "i", "p", "t">>, variants |-> {<<"j", "s">>, <<"n", "o", "d", "e", ".", "j", "s">>, <<"n", "o", "d", "e", "j", "s">>}],
    [key |-> <<"p", "y", "t", "h", "o", "n">>, variants |-> {<<"p", "y">>}],
    [key |-> <<"h", "t", "m", "l", "/", "c", "s", "s">>, variants |-> {<<"h", "t", "m", "l">>, <<"c", "s", "s">>}],
    [key |-> <<"r", "e", "a", "c", "t">>, variants |-> {<<"r", "e", "a", "c", "t", ".", "j", "s">>, <<"r", "e", "a", "c", "t", "j", "s">>}],
    [key |-> <<"b", "a", "c", "k", "e", "n", "d", " ", "(", "n", "o", "d", "e", "/", "e", "x", "p", "r", "e", "s", "s", ")">>,
     variants |-> {<<"n", "o", "d", "e", ".", "j", "s">>, <<"e", "x", "p", "r", "e", "s", "s", ".", "j", "s">>, <<"e", "x", "p", "r", "e", "s", "s">>, <<"b", "a", "c", "k", "e", "n", "d">>}],
    [key |-> <<"s", "q", "l">>, variants |-> {<<"p", "o", "s", "t", "g", "r", "e", "s", "q", "l">>, <<"m", "y", "s", "q", "l">>, <<"s", "q", "l", "i", "t", "e">>}],
    [key |-> <<"g", "i", "t", " ", "&", " ", "g", "i", "t", "h", "u", "b">>, variants |-> {<<"g", "i", "t">>, <<"g", "i", "t", "h", "u", "b">>}],
    [key |-> <<"d", "o", "c", "k", "e", "r">>, variants |-> {<<"c", "o", "n", "t", "a", "i", "n", "e", "r", "i", "z", "a", "t", "i", "o", "n">>}],
    [key |-> <<"l", "i", "n", "u", "x", "/", "b", "a", "s", "h">>, variants |-> {<<"l", "i", "n", "u", "x">>, <<"b", "a", "s", "h">>, <<"s", "h", "e", "l", "l">>}] >>

areSkillsSimilar(skill1, skill2) ==
    \E i \in 1..Len(variations) :
        LET key == variations[i].key
            variants == variations[i].variants
        IN  \/ key = skill1 /\ skill2 \in variants
            \/ key = skill2 /\ skill1 \in variants
            \/ skill1 \in variants /\ skill2 \in variants

(***************************************************************************)
(* Skill Resolver.  A user skill map is a JavaScript object with string    *)
(* keys: the sequence of its <<key, level>> entries in insertion order,    *)
(* keys distinct.  A level is a string; the empty string is falsy.         *)
(***************************************************************************)
Null == [null |-> TRUE]

hasKey(userSkillListWithLevels, key) ==
    \E i \in 1..Len(userSkillListWithLevels) : userSkillListWithLevels[i][1] = key

\* userSkillListWithLevels[key], for a key the object has
valueOf(userSkillListWithLevels, key) ==
    userSkillListWithLevels[CHOOSE i \in 1..Len(userSkillListWithLevels) :
                                userSkillListWithLevels[i][1] = key][2]

\* if (userSkillListWithLevels[key]): the key is there and its value is truthy
truthyAt(userSkillListWithLevels, key) ==
    hasKey(userSkillListWithLevels, key) /\ valueOf(userSkillListWithLevels, key) # ""

\* similarityScore with minLength / maxLength > 0.3 for >= 0.3
similarityScore_strictRatio(skillNameLower, userSkillLower) ==
    LET minLength == IF Len(skillNameLower) < Len(userSkillLower)
                     THEN Len(skillNameLower) ELSE Len(userSkillLower)
        maxLength == IF Len(skillNameLower) < Len(userSkillLower)
                     THEN Len(userSkillLower) ELSE Len(skillNameLower)
        substantial ==
            /\ includes(userSkillLower, skillNameLower) \/ includes(skillNameLower, userSkillLower)
            /\ minLength >= 2
            /\ 10 * minLength > 3 * maxLength
    IN  IF areSkillsSimilar(skillNameLower, userSkillLower) THEN 9
        ELSE IF substantial THEN 8
        ELSE 0

\* the score the fuzzy loop of findUserSkill gives one user skill, in tenths
similarityScore(skillNameLower, userSkillLower) ==
    LET minLength == IF Len(skillNameLower) < Len(userSkillLower)
                     THEN Len(skillNameLower) ELSE Len(userSkillLower)
        maxLength == IF Len(skillNameLower) < Len(userSkillLower)
                     THEN Len(userSkillLower) ELSE Len(skillNameLower)
        substantial ==
            /\ includes(userSkillLower, skillNameLower) \/ includes(skillNameLower, userSkillLower)
            /\ minLength >= 2
            /\ 10 * minLength >= 3 * maxLength
    IN  IF areSkillsSimilar(skillNameLower, userSkillLower) THEN 9
        ELSE IF substantial THEN 8
        ELSE 0

\* findUserSkill returning the user skill of the highest score, not the
\* first one that reaches 0.7
findUserSkill_bestScore(skillName0, userSkillListWithLevels) ==
    LET skillName == stripPunctuation(skillName0)
        skillNameLower == toLowerCase(skillName)
        scoreOf(i) == similarityScore(skillNameLower,
                                      toLowerCase(userSkillListWithLevels[i][1]))
        hits == {i \in 1..Len(userSkillListWithLevels) : scoreOf(i) >= 7}
    IN  IF truthyAt(userSkillListWithLevels, skillName)
        THEN [name |-> skillName, level |-> valueOf(userSkillListWithLevels, skillName)]
        ELSE IF hits = {} THEN Null
        ELSE LET best == CHOOSE i \in hits : \A j \in hits :
                             \/ scoreOf(j) < scoreOf(i)
                             \/ scoreOf(j) = scoreOf(i) /\ i <= j
             IN  [name |-> userSkillListWithLevels[best][1],
                  level |-> userSkillListWithLevels[best][2]]

\* findUserSkill with similarityScore >= 0 for >= 0.7
findUserSkill_zeroThreshold(skillName0, userSkillListWithLevels) ==
    LET skillName == stripPunctuation(skillName0)
        skillNameLower == toLowerCase(skillName)
        hits == {i \in 1..Len(userSkillListWithLevels) :
                    similarityScore(skillNameLower,
                                    toLowerCase(userSkillListWithLevels[i][1])) >= 0}
    IN  IF truthyAt(userSkillListWithLevels, skillName)
        THEN [name |-> skillName, level |-> valueOf(userSkillListWithLevels, skillName)]
        ELSE IF hits = {} THEN Null
        ELSE LET first == CHOOSE i \in hits : \A j \in hits : i <= j
             IN  [name |-> userSkillListWithLevels[first][1],
                  level |-> userSkillListWithLevels[first][2]]

\* findUserSkill returning an object without level, not null, for a skill
\* it does not find
findUserSkill_neverNull(skillName0, userSkillListWithLevels) ==
    LET skillName == stripPunctuation(skillName0)
        skillNameLower == toLowerCase(skillName)
        hits == {i \in 1..Len(userSkillListWithLevels) :
                    similarityScore(skillNameLower,
                                    toLowerCase(userSkillListWithLevels[i][1])) >= 7}
    IN  IF truthyAt(userSkillListWithLevels, skillName)
        THEN [name |-> skillName, level |-> valueOf(userSkillListWithLevels, skillName)]
        ELSE IF hits = {} THEN [name |-> skillName, level |-> "undefined"]
        ELSE LET first == CHOOSE i \in hits : \A j \in hits : i <= j
             IN  [name |-> userSkillListWithLevels[first][1],
                  level |-> userSkillListWithLevels[first][2]]

findUserSkill(skillName0, userSkillListWithLevels) ==
    LET skillName == stripPunctuation(skillName0)
        skillNameLower == toLowerCase(skillName)
        hits == {i \in 1..Len(userSkillListWithLevels) :
                    similarityScore(skillNameLower,
                                    toLowerCase(userSkillListWithLevels[i][1])) >= 7}
    IN  IF truthyAt(userSkillListWithLevels, skillName)
        THEN [name |-> skillName, level |-> valueOf(userSkillListWithLevels, skillName)]
        ELSE IF hits = {} THEN Null
        ELSE LET first == CHOOSE i \in hits : \A j \in hits : i <= j
             IN  [name |-> userSkillListWithLevels[first][1],
                  level |-> userSkillListWithLevels[first][2]]

(***************************************************************************)
(* Category Matcher: the grouping of the retrieved neighbours.             *)
(* categoryScores is a JavaScript object keyed by category name: the       *)
(* sequence of its <<category, score>> entries in insertion order (the     *)
(* category names are not integer-like, so Object.entries keeps that       *)
(* order).                                                                 *)
(***************************************************************************)
\* categoryScores[category] = score: a new key goes last, a known key keeps
\* its place
setScore(categoryScores, category, score) ==
    IF hasKey(categoryScores, category)
    THEN [i \in 1..Len(categoryScores) |->
            IF categoryScores[i][1] = category THEN <<category, score>>
            ELSE categoryScores[i]]
    ELSE Append(categoryScores, <<category, score>>)

\* groupResult with the comparison left out: the latest score is kept
groupResult_lastWins(categoryScores, result) ==
    setScore(categoryScores, result.payload.category, result.score)

\* one turn of results.forEach
groupResult(categoryScores, result) ==
    LET category == result.payload.category
        score == result.score
    IN  IF \/ ~hasKey(categoryScores, category)
           \/ valueOf(categoryScores, category) = 0
           \/ score > valueOf(categoryScores, category)
        THEN setScore(categoryScores, category, score)
        ELSE categoryScores

RECURSIVE groupResults(_, _)
groupResults(categoryScores, results) ==
    IF results = <<>> THEN categoryScores
    ELSE groupResults(groupResult(categoryScores, Head(results)), Tail(results))

\* what findTaxonomyCategories returns once the search has answered
distinctCategoriesWithConfidence(results) ==
    LET categoryScores == groupResults(<<>>, results)
    IN  [i \in 1..Len(categoryScores) |->
            [category |-> categoryScores[i][1], confidence |-> categoryScores[i][2]]]

(***************************************************************************)
(* Gap Analysis Engine                                                     *)
(***************************************************************************)
emptySkills == [gaps |-> <<>>, present |-> <<>>, needs_improvement |-> <<>>]

\* classifySkill with "if" for "else if": a beginner skill also reaches the
\* final else
classifySkill_missingElse(skills, skill, userSkillListWithLevels) ==
    LET skillFound == findUserSkill(skill, userSkillListWithLevels)
        entry(recommendation) ==
            [name |-> skill, user_level |-> skillFound.level,
             recommendation |-> recommendation]
    IN  IF skillFound = Null
        THEN [skills EXCEPT !.gaps = Append(@, [name |-> skill, priority |-> "high"])]
        ELSE IF skillFound.level = "beginner"
        THEN [skills EXCEPT
                 !.needs_improvement =
                     Append(@, entry("Focus on intermediate concepts and practice")),
                 !.present = Append(@, entry("Strong skill - can mentor others"))]
        ELSE IF skillFound.level = "intermediate"
        THEN [skills EXCEPT !.present =
                 Append(@, entry("Consider advancing to expert level"))]
        ELSE [skills EXCEPT !.present =
                 Append(@, entry("Strong skill - can mentor others"))]

\* classifySkill with a level that is none of the three known ones taken as
\* beginner
classifySkill_unknownAsBeginner(skills, skill, userSkillListWithLevels) ==
    LET skillFound == findUserSkill(skill, userSkillListWithLevels)
        entry(recommendation) ==
            [name |-> skill, user_level |-> skillFound.level,
             recommendation |-> recommendation]
    IN  IF skillFound = Null
        THEN [skills EXCEPT !.gaps = Append(@, [name |-> skill, priority |-> "high"])]
        ELSE IF skillFound.level = "intermediate"
        THEN [skills EXCEPT !.present =
                 Append(@, entry("Consider advancing to expert level"))]
        ELSE IF skillFound.level = "expert"
        THEN [skills EXCEPT !.present =
                 Append(@, entry("Strong skill - can mentor others"))]
        ELSE [skills EXCEPT !.needs_improvement =
                 Append(@, entry("Focus on intermediate concepts and practice"))]

\* classifySkill reporting the user's name of a matched skill for the
\* taxonomy's
classifySkill_userName(skills, skill, userSkillListWithLevels) ==
    LET skillFound == findUserSkill(skill, userSkillListWithLevels)
        entry(recommendation) ==
            [name |-> skillFound.name, user_level |-> skillFound.level,
             recommendation |-> recommendation]
    IN  IF skillFound = Null
        THEN [skills EXCEPT !.gaps = Append(@, [name |-> skill, priority |-> "high"])]
        ELSE IF skillFound.level = "beginner"
        THEN [skills EXCEPT !.needs_improvement =
                 Append(@, entry("Focus on intermediate concepts and practice"))]
        ELSE IF skillFound.level = "intermediate"
        THEN [skills EXCEPT !.present =
                 Append(@, entry("Consider advancing to expert level"))]
        ELSE [skills EXCEPT !.present =
                 Append(@, entry("Strong skill - can mentor others"))]

\* one turn of the loop over taxonomyCategory.skills
classifySkill(skills, skill, userSkillListWithLevels) ==
    LET skillFound == findUserSkill(skill, userSkillListWithLevels)
    IN  IF skillFound = Null
        THEN [skills EXCEPT !.gaps = Append(@, [name |-> skill, priority |-> "high"])]
        ELSE LET userLevel == skillFound.level
                 skillAnalysis(recommendation) ==
                     [name |-> skill, user_level |-> userLevel,
                      recommendation |-> recommendation]
             IN  IF userLevel = "beginner"
                 THEN [skills EXCEPT !.needs_improvement =
                          Append(@, skillAnalysis("Focus on intermediate concepts and practice"))]
                 ELSE IF userLevel = "intermediate"
                 THEN [skills EXCEPT !.present =
                          Append(@, skillAnalysis("Consider advancing to expert level"))]
                 ELSE [skills EXCEPT !.present =
                          Append(@, skillAnalysis("Strong skill - can mentor others"))]

RECURSIVE classifySkills(_, _, _)
classifySkills(skills, taxonomySkills, userSkillListWithLevels) ==
    IF taxonomySkills = <<>> THEN skills
    ELSE classifySkills(classifySkill(skills, Head(taxonomySkills), userSkillListWithLevels),
                        Tail(taxonomySkills), userSkillListWithLevels)

\* lowSimilarity with 0.5 for 0.7
lowSimilarity_halfThreshold(matchResult) == Less(matchResult.similarity, <<5, 10>>)

\* lowSimilarity with similarity < 0 for < 0.7
lowSimilarity_neverSkips(matchResult) == Less(matchResult.similarity, <<0, 1>>)

\* if (matchResult.similarity < 0.7) continue
lowSimilarity(matchResult) == Less(matchResult.similarity, ALIGNMENT_THRESHOLD)

\* analyzeCategory with unshift for push
analyzeCategory_unshift(analysis, categoryInfo, userSkillListWithLevels) ==
    LET matchResult == findMatchingTaxonomyCategory(categoryInfo.category)
        taxonomyCategory == matchResult.category
    IN  IF Less(matchResult.similarity, ALIGNMENT_THRESHOLD) THEN analysis
        ELSE <<[detected_category |-> categoryInfo.category,
                matched_taxonomy_category |-> taxonomyCategory.category,
                confidence |-> categoryInfo.confidence,
                similarity |-> matchResult.similarity,
                skills |-> classifySkills(emptySkills, taxonomyCategory.skills,
                                          userSkillListWithLevels)]>> \o analysis

\* one turn of the loop over the detected categories
analyzeCategory(analysis, categoryInfo, userSkillListWithLevels) ==
    LET matchResult == findMatchingTaxonomyCategory(categoryInfo.category)
        taxonomyCategory == matchResult.category
    IN  IF lowSimilarity(matchResult) THEN analysis
        ELSE Append(analysis,
                    [detected_category |-> categoryInfo.category,
                     matched_taxonomy_category |-> taxonomyCategory.category,
                     confidence |-> categoryInfo.confidence,
                     similarity |-> matchResult.similarity,
                     skills |-> classifySkills(emptySkills, taxonomyCategory.skills,
                                               userSkillListWithLevels)])

RECURSIVE analyzeFrom(_, _, _)
analyzeFrom(analysis, categories, userSkillListWithLevels) ==
    IF categories = <<>> THEN analysis
    ELSE analyzeFrom(analyzeCategory(analysis, Head(categories), userSkillListWithLevels),
                     Tail(categories), userSkillListWithLevels)

\* analyzeSkillGapsForCategories falling back to the first taxonomy category
\* when no category was detected
analyzeSkillGapsForCategories_defaultsToFirst(categories, userSkillListWithLevels) ==
    IF categories = <<>>
    THEN analyzeFrom(<<>>, <<[category |-> skill_taxonomy[1].category, confidence |-> 0]>>,
                     userSkillListWithLevels)
    ELSE analyzeFrom(<<>>, categories, userSkillListWithLevels)

analyzeSkillGapsForCategories(categories, userSkillListWithLevels) ==
    analyzeFrom(<<>>, categories, userSkillListWithLevels)

(***************************************************************************)
(* Requests.  One gap analysis runs at a time, on one of the two paths:    *)
(* "service" is analyzeSkillGaps of services/skillGapService.js, called by *)
(* the POST /analyze-skill-gaps route; "standalone" is findSkillGaps of    *)
(* the standalone gap finder, called at the end of its script.  pc is the  *)
(* await the request is suspended at.                                      *)
(***************************************************************************)
VARIABLES
    pc,                         \* "idle", "profile", "embedding", "search", "summary", "done"
    path,                       \* "service" or "standalone"
    userSkillListWithLevels,    \* payload.skills_list_with_level of the fetched profile
    results,                    \* the neighbours the vector search returned
    categories,                 \* what the Category Matcher returned
    skillGaps,                  \* what analyzeSkillGapsForCategories returned
    failed,                     \* the provider call of this request that failed, if one did
    response,                   \* what the caller of the request got
    file,                       \* skill_gaps_analysis.json of the standalone path
    lastFailure,                \* the latest failed service request before this one
    network,                    \* the network calls of the request, in the order issued
    scorer,                     \* a call of calculateStringSimilarity and its result
    concurrent,                 \* the analyzeSkillGaps calls in flight together, by request
    seeder,                     \* the run of seedSkillTaxonomy
    skill_embeddings,           \* the skill-embedding collection of the vector index
    resolver,                   \* the loop over the skills of one taxonomy category
    aligner,                    \* the loop over the detected categories
    user_profiles,              \* the points of the user_profiles collection
    creators,                   \* the createUserProfile calls, by call
    clock,                      \* Date.now()
    lookup                      \* a POST /analyze-skill-gaps request of an authenticated user

profileVars == <<user_profiles, creators, clock, lookup>>

requestVars == <<pc, path, userSkillListWithLevels, results, categories, skillGaps,
                 failed, response, file, lastFailure, network>>

vars == <<requestVars, skill_taxonomy, scorer, concurrent, seeder, skill_embeddings, resolver, aligner,
    profileVars>>

\* what the actions of a request leave alone
outsideRequest == <<skill_taxonomy, scorer, concurrent, seeder, skill_embeddings, resolver, aligner,
    profileVars>>

\* what the calls of the scorer leave alone
outsideScorer == <<requestVars, skill_taxonomy, concurrent, seeder, skill_embeddings, resolver, aligner,
    profileVars>>

\* what the requests in flight together leave alone, the taxonomy apart
outsideConcurrent == <<requestVars, scorer, seeder, skill_embeddings, resolver, aligner,
    profileVars>>

\* what the seeding leaves alone
outsideSeeder == <<requestVars, skill_taxonomy, scorer, concurrent, resolver, aligner,
    profileVars>>

\* what the loop over the skills of a category leaves alone
outsideResolver == <<requestVars, skill_taxonomy, scorer, concurrent, seeder, skill_embeddings,
                     aligner, profileVars>>

\* what the loop over the detected categories leaves alone
outsideAligner == <<requestVars, skill_taxonomy, scorer, concurrent, seeder, skill_embeddings,
                    resolver, profileVars>>

\* what the profile calls leave alone
outsideProfiles == <<requestVars, skill_taxonomy, scorer, concurrent, seeder, skill_embeddings,
                     resolver, aligner>>

(***************************************************************************)
(* Inputs                                                                  *)
(***************************************************************************)
\* the user skill maps a stored profile may carry
UserSkillMaps == {
    <<>>,
    << <<<<"h", "t", "m", "l">>, "beginner">>, <<<<"R", "e", "a", "c", "t", ".", "j", "s">>, "intermediate">> >>,
    << <<<<"R", "e", "a", "c", "t">>, "expert">>, <<<<"J", "a", "v", "a", "S", "c", "r", "i", "p", "t">>, "beginner">>, <<<<"S", "Q", "L">>, "intermediate">> >>,
    << <<<<"j", "s">>, "guru">>, <<<<"A", "u", "t", "h", "e", "n", "t", "i", "c", "a", "t", "i", "o", "n">>, "">>, <<<<"h", "t", "m", "l">>, "beginner">>,
       <<<<"r", "e", "a", "c", "t", "j", "s">>, "intermediate">> >>,
    << <<<<"R", "u", "s", "t">>, "expert">>, <<<<"G", "i", "t", " ", "&", " ", "G", "i", "t", "H", "u", "b">>, "beginner">> >> }

\* the category names the payloads of the retrieved neighbours may carry
DetectedCategories == {
    <<"W", "e", "b", " ", "D", "e", "v", "e", "l", "o", "p", "m", "e", "n", "t">>,
    <<"W", "e", "b", " ", "D", "e", "v">>,
    <<"W", "e", "b", " ", "A", "p", "p", " ", "D", "e", "v", "e", "l", "o", "p", "m", "e", "n", "t">>,
    <<"A", "d", "v", "a", "n", "c", "e", "d", " ", "D", "a", "t", "a", " ", "S", "t", "r", "u", "c", "t", "u", "r", "e", "s", " ", "A", "l", "g", "o", "r", "i", "t", "h", "m", "s", "(", "D", "S", "A", ")">>,
    <<"C", "o", "o", "k", "i", "n", "g">> }

\* the scores of the retrieved neighbours, in hundredths
Scores == {45, 90}

\* the messages a provider failure may carry
ProviderMessages == {"timeout", "unauthorized"}

\* limit of the vector search
limit(p) == IF p = "service" THEN 5 ELSE 10

\* score_threshold of the vector search, in hundredths
score_threshold(p) == IF p = "service" THEN 45 ELSE 40

Neighbours(p) ==
    {[payload |-> [category |-> c], score |-> s] :
        c \in DetectedCategories, s \in {x \in Scores : x >= score_threshold(p)}}

Min(a, b) == IF a < b THEN a ELSE b

\* the answers of qdrant.search on the skill-embedding collection
SearchAnswers(p) ==
    UNION {[1..n -> Neighbours(p)] : n \in 0..Min(MaxNeighbours, limit(p))}

(***************************************************************************)
(* Errors.  A message is the sequence of the pieces it is concatenated     *)
(* from.                                                                   *)
(***************************************************************************)
EmbeddingError(m) == [name |-> "EmbeddingError", message |-> <<m>>]

SearchError(m) == [name |-> "SearchError", message |-> <<m>>]

\* throw new Error(`Failed to analyze skill gaps: ${error.message}`)
wrapError(error) ==
    [name |-> "Error", message |-> <<"Failed to analyze skill gaps: ">> \o error.message]

NoFailure == [stage |-> "none"]

Pending == [kind |-> "pending"]

NoFile == [written |-> FALSE]

FALLBACK_SUMMARY ==
    "Unable to generate summary at this time. Please review the detailed analysis above."

TypeError(m) == [name |-> "TypeError", message |-> <<m>>]

SummaryError(m) == [name |-> "SummaryError", message |-> <<m>>]

\* a network call is issued: it is pending
issue(calls, call) == Append(calls, [call |-> call, state |-> "pending"])

\* the request goes on without waiting for the call it issued last
settle_forgets(calls, outcome) == calls

\* the await of the call issued last ends: the call answered ("answered",
\* or "empty" for a search without results) or "failed"
settle(calls, outcome) == [calls EXCEPT ![Len(calls)].state = outcome]

\* if (!userProfile) never taken
returnsEarly_never(userProfile) == FALSE

\* if (!userProfile)
returnsEarly(userProfile) == userProfile = Null

\* generateSkillGapSummary rethrowing the failure of the chat completion
generateSkillGapSummary_rethrows(completion) ==
    IF completion.ok THEN [returned |-> TRUE, value |-> completion.content]
    ELSE [returned |-> FALSE, error |-> completion.error]

\* generateSkillGapSummary, by the outcome of its chat completion: the
\* content of the completion, or the fixed text of its catch block
generateSkillGapSummary(completion) ==
    IF completion.ok THEN [returned |-> TRUE, value |-> completion.content]
    ELSE [returned |-> TRUE, value |-> FALLBACK_SUMMARY]

\* the status the POST /analyze-skill-gaps route answers with, by what
\* analyzeSkillGaps delivered
httpStatus(delivered) ==
    IF delivered.kind = "error" THEN 500
    ELSE IF delivered.value = "null" THEN 404
    ELSE 200

\* the catch block of the path: analyzeSkillGaps rethrows wrapped,
\* findSkillGaps logs and returns
caught(p, error) ==
    IF p = "service" THEN [kind |-> "error", error |-> wrapError(error)]
    ELSE [kind |-> "returned", value |-> "undefined"]

(***************************************************************************)
(* Initial state and actions                                               *)
(***************************************************************************)
\* no call of the scorer
ScorerIdle == [called |-> FALSE]

RequestInit ==
    /\ pc = "idle"
    /\ path = "service"
    /\ userSkillListWithLevels = <<>>
    /\ results = <<>>
    /\ categories = <<>>
    /\ skillGaps = <<>>
    /\ failed = NoFailure
    /\ response = Pending
    /\ file = NoFile
    /\ lastFailure = NoFailure
    /\ network = <<>>

\* no request in flight
ConcurrentIdle ==
    [r \in 1..NumRequests |->
        [pc |-> "idle", userSkillListWithLevels |-> <<>>, results |-> <<>>,
         skillGaps |-> <<>>, failed |-> NoFailure, response |-> Pending]]

\* the seeding script has not run and the collection does not exist
SeederIdle == [pc |-> "idle", run |-> 0, category |-> 1, skill |-> 1, points |-> <<>>, skillId |-> 1]

NoCollection == [exists |-> FALSE, points |-> {}]

\* no call of createUserProfile
CreatorIdle == [pc |-> "idle"]

LookupIdle == [pc |-> "idle"]

\* the user_profiles collection is empty and no profile call is running
ProfilesInit ==
    /\ user_profiles = {}
    /\ creators = [r \in 1..NumCreators |-> CreatorIdle]
    /\ clock = 1
    /\ lookup = LookupIdle

\* analyzeSkillGapsForCategories is not running
AlignerIdle == [categories |-> <<>>, userSkills |-> <<>>, turn |-> 1, matchResults |-> <<>>,
                analysis |-> <<>>, threw |-> FALSE]

\* no category is being analysed
ResolverIdle == [userSkills |-> <<>>, category |-> 1, skill |-> 1, found |-> <<>>,
                 skills |-> emptySkills]

Init ==
    /\ RequestInit
    /\ skill_taxonomy = skill_taxonomy_js
    /\ scorer = ScorerIdle
    /\ concurrent = ConcurrentIdle
    /\ seeder = SeederIdle
    /\ skill_embeddings = NoCollection
    /\ resolver = ResolverIdle
    /\ aligner = AlignerIdle
    /\ ProfilesInit

\* a caller starts a request: the path runs up to its profile search
Call(p) ==
    /\ pc \in {"idle", "done"}
    /\ pc' = "profile"
    /\ path' = p
    /\ userSkillListWithLevels' = <<>>
    /\ results' = <<>>
    /\ categories' = <<>>
    /\ skillGaps' = <<>>
    /\ failed' = NoFailure
    /\ response' = Pending
    /\ file' = NoFile
    /\ lastFailure' = IF path = "service" /\ failed # NoFailure
                      THEN [stage |-> failed.stage, error |-> failed.error,
                            response |-> response]
                      ELSE lastFailure
    /\ network' = issue(<<>>, "profile")
    /\ UNCHANGED outsideRequest

\* the profile search answers with the points existing: fetchUserProfileByName
\* returns the first one or null, and the path returns early or goes on to
\* the embedding call with the skills of the profile
ProfileAnswers(existing) ==
    /\ pc = "profile"
    /\ LET userProfile == IF Len(existing) > 0 THEN existing[1] ELSE Null
       IN  IF returnsEarly(userProfile)
           THEN /\ pc' = "done"
                /\ response' = IF path = "service" THEN [kind |-> "returned", value |-> "null"]
                               ELSE [kind |-> "returned", value |-> "undefined"]
                /\ network' = settle(network, IF Len(existing) > 0 THEN "answered" ELSE "empty")
                /\ UNCHANGED userSkillListWithLevels
           ELSE IF userProfile = Null
           THEN /\ pc' = "done"
                /\ response' = caught(path, TypeError("Cannot read properties of null"))
                /\ network' = settle(network, "empty")
                /\ UNCHANGED userSkillListWithLevels
           ELSE /\ pc' = "embedding"
                /\ userSkillListWithLevels' = userProfile.payload.skills_list_with_level
                /\ network' = issue(settle(network, "answered"), "embedding")
                /\ UNCHANGED response
    /\ UNCHANGED <<path, results, categories, skillGaps, failed, file, lastFailure>>
    /\ UNCHANGED outsideRequest

\* fetchUserProfileByName finds a profile; the path goes on to the embedding call
ProfileFound(skills) ==
    ProfileAnswers(<<[payload |-> [skills_list_with_level |-> skills]]>>)

\* fetchUserProfileByName finds no profile: analyzeSkillGaps returns null,
\* findSkillGaps returns
ProfileMissing == ProfileAnswers(<<>>)

\* the profile search fails
ProfileSearchFails(m) ==
    /\ pc = "profile"
    /\ pc' = "done"
    /\ failed' = [stage |-> "profile", error |-> SearchError(m)]
    /\ response' = caught(path, SearchError(m))
    /\ network' = settle(network, "failed")
    /\ UNCHANGED <<path, userSkillListWithLevels, results, categories, skillGaps,
                   file, lastFailure>>
    /\ UNCHANGED outsideRequest

\* openai.embeddings.create answers; the path goes on to the vector search
EmbeddingAnswers ==
    /\ pc = "embedding"
    /\ pc' = "search"
    /\ network' = issue(settle(network, "answered"), "search")
    /\ UNCHANGED <<path, userSkillListWithLevels, results, categories, skillGaps,
                   failed, response, file, lastFailure>>
    /\ UNCHANGED outsideRequest

\* openai.embeddings.create fails
EmbeddingFails(m) ==
    /\ pc = "embedding"
    /\ pc' = "done"
    /\ failed' = [stage |-> "embedding", error |-> EmbeddingError(m)]
    /\ response' = caught(path, EmbeddingError(m))
    /\ network' = settle(network, "failed")
    /\ UNCHANGED <<path, userSkillListWithLevels, results, categories, skillGaps,
                   file, lastFailure>>
    /\ UNCHANGED outsideRequest

\* the vector search answers: the matcher groups the neighbours and the
\* engine analyses the categories; the service path goes on to the summary
\* call, the standalone path writes its file and returns
SearchAnswersWith(answer) ==
    /\ pc = "search"
    /\ answer \in SearchAnswers(path)
    /\ results' = answer
    /\ categories' = distinctCategoriesWithConfidence(answer)
    /\ skillGaps' = analyzeSkillGapsForCategories(categories', userSkillListWithLevels)
    /\ IF path = "service"
       THEN /\ pc' = "summary"
            /\ network' = issue(settle(network, IF answer = <<>> THEN "empty" ELSE "answered"),
                                "summary")
            /\ UNCHANGED <<response, file>>
       ELSE /\ pc' = "done"
            /\ network' = settle(network, IF answer = <<>> THEN "empty" ELSE "answered")
            /\ file' = [written |-> TRUE, content |-> skillGaps']
            /\ response' = [kind |-> "returned", value |-> "undefined"]
    /\ UNCHANGED <<path, userSkillListWithLevels, failed, lastFailure>>
    /\ UNCHANGED outsideRequest

\* the vector search fails
SearchFails(m) ==
    /\ pc = "search"
    /\ pc' = "done"
    /\ failed' = [stage |-> "search", error |-> SearchError(m)]
    /\ response' = caught(path, SearchError(m))
    /\ network' = settle(network, "failed")
    /\ UNCHANGED <<path, userSkillListWithLevels, results, categories, skillGaps,
                   file, lastFailure>>
    /\ UNCHANGED outsideRequest

\* the return statement of analyzeSkillGaps
success(summary) ==
    [kind |-> "returned", value |-> "object", success |-> TRUE,
     analysis |-> skillGaps, summary |-> summary,
     categories_analyzed |-> Len(categories)]

\* the chat completion of generateSkillGapSummary ends, and analyzeSkillGaps
\* with it
SummaryEnds(completion) ==
    /\ pc = "summary"
    /\ pc' = "done"
    /\ LET summary == generateSkillGapSummary(completion)
       IN  response' = IF summary.returned THEN success(summary.value)
                       ELSE caught(path, summary.error)
    /\ network' = settle(network, IF completion.ok THEN "answered" ELSE "failed")
    /\ UNCHANGED <<path, userSkillListWithLevels, results, categories, skillGaps,
                   failed, file, lastFailure>>
    /\ UNCHANGED outsideRequest

\* the chat completion answers
SummaryAnswers == SummaryEnds([ok |-> TRUE, content |-> "generated"])

\* the chat completion fails
SummaryFails == SummaryEnds([ok |-> FALSE, error |-> SummaryError("timeout")])

Next ==
    \/ \E p \in {"service", "standalone"} : Call(p)
    \/ \E skills \in UserSkillMaps : ProfileFound(skills)
    \/ ProfileMissing
    \/ \E m \in ProviderMessages : ProfileSearchFails(m)
    \/ EmbeddingAnswers
    \/ \E m \in ProviderMessages : EmbeddingFails(m)
    \/ \E answer \in SearchAnswers(path) : SearchAnswersWith(answer)
    \/ \E m \in ProviderMessages : SearchFails(m)
    \/ SummaryAnswers
    \/ SummaryFails

Spec == Init /\ [][Next]_vars

(***************************************************************************)
(* The String Similarity Scorer applied to chosen strings                  *)
(***************************************************************************)
ScorerStrings == {
    <<>>,
    <<"W", "e", "b", " ", "D", "e", "v", "e", "l", "o", "p", "m", "e", "n", "t">>,
    <<"w", "e", "b", " ", "d", "e", "v", "e", "l", "o", "p", "m", "e", "n", "t", "!", "!">>,
    <<"W", "e", "b", " ", "D", "e", "v", "e", "l", "o", "p", "m", "e", "n", "t", " ", "e", "x", "t", "r", "a">>,
    <<"W", "e", "b", " ", "D", "e", "v">>,
    <<"W", "e", "b", " ", "A", "p", "p", " ", "D", "e", "v", "e", "l", "o", "p", "m", "e", "n", "t">>,
    <<"!", "!", "!">>,
    <<"!", "!", "!", " ", "e", "x", "t", "r", "a">>,
    <<" ">>,
    <<"\t">>,
    <<" ", "a">>,
    <<"b", " ">>,
    <<"a", " ", "b">>,
    <<"b", " ", "a">> }

ScorerInit ==
    /\ RequestInit
    /\ skill_taxonomy = skill_taxonomy_js
    /\ scorer \in [called : {FALSE}, str1 : ScorerStrings, str2 : ScorerStrings]
    /\ concurrent = ConcurrentIdle
    /\ seeder = SeederIdle
    /\ skill_embeddings = NoCollection
    /\ resolver = ResolverIdle
    /\ aligner = AlignerIdle
    /\ ProfilesInit

\* calculateStringSimilarity is called and returns
Score ==
    /\ ~scorer.called
    /\ scorer' = [called |-> TRUE, str1 |-> scorer.str1, str2 |-> scorer.str2,
                  similarity |-> calculateStringSimilarity(scorer.str1, scorer.str2)]
    /\ UNCHANGED outsideScorer

ScorerNext == Score

ScorerSpec == ScorerInit /\ [][ScorerNext]_vars

(***************************************************************************)
(* Requests of the service in flight together.  Each request keeps its     *)
(* own locals; skill_taxonomy is the one object all of them reach.         *)
(***************************************************************************)
ConcurrentSkillMaps == {
    << <<<<"h", "t", "m", "l">>, "beginner">>, <<<<"R", "e", "a", "c", "t", ".", "j", "s">>, "intermediate">> >>,
    << <<<<"R", "u", "s", "t">>, "expert">>, <<<<"G", "i", "t", " ", "&", " ", "G", "i", "t", "H", "u", "b">>, "beginner">> >> }

ConcurrentAnswers == {
    <<>>,
    <<[payload |-> [category |-> <<"W", "e", "b", " ", "D", "e", "v", "e", "l", "o", "p", "m", "e", "n", "t">>], score |-> 90]>>,
    <<[payload |-> [category |-> <<"W", "e", "b", " ", "D", "e", "v">>], score |-> 45],
      [payload |-> [category |-> <<"A", "d", "v", "a", "n", "c", "e", "d", " ", "D", "a", "t", "a", " ", "S", "t", "r", "u", "c", "t", "u", "r", "e", "s", " ", "A", "l", "g", "o", "r", "i", "t", "h", "m", "s", "(", "D", "S", "A", ")">>], score |-> 90]>>,
    <<[payload |-> [category |-> <<"C", "o", "o", "k", "i", "n", "g">>], score |-> 90]>> }

\* taxonomyAfterAnalysis had the skill loop taken the skills out of the
\* category it walks (while (skill = taxonomyCategory.skills.shift()))
taxonomyAfterAnalysis_shiftsSkills(taxonomy, detected) ==
    [i \in 1..Len(taxonomy) |->
        IF \E k \in 1..Len(detected) :
               LET matchResult == findMatchingTaxonomyCategory(detected[k].category)
               IN  /\ ~lowSimilarity(matchResult)
                   /\ matchResult.category.category = taxonomy[i].category
        THEN [taxonomy[i] EXCEPT !.skills = <<>>]
        ELSE taxonomy[i]]

\* skill_taxonomy after analyzeSkillGapsForCategories: the function reads
\* the category and the skills of the taxonomy and assigns to neither
taxonomyAfterAnalysis(taxonomy, detected) == taxonomy

ConcurrentInit == Init

\* a caller starts request r: analyzeSkillGaps runs up to its profile search
ConcurrentCall(r) ==
    /\ concurrent[r].pc = "idle"
    /\ concurrent' = [concurrent EXCEPT ![r].pc = "profile"]
    /\ UNCHANGED <<skill_taxonomy, outsideConcurrent>>

\* the profile search of request r answers with a profile
ConcurrentProfileFound(r, skills) ==
    /\ concurrent[r].pc = "profile"
    /\ concurrent' = [concurrent EXCEPT ![r].pc = "embedding",
                                        ![r].userSkillListWithLevels = skills]
    /\ UNCHANGED <<skill_taxonomy, outsideConcurrent>>

\* the embedding call of request r answers
ConcurrentEmbeddingAnswers(r) ==
    /\ concurrent[r].pc = "embedding"
    /\ concurrent' = [concurrent EXCEPT ![r].pc = "search"]
    /\ UNCHANGED <<skill_taxonomy, outsideConcurrent>>

\* the vector search of request r answers: matcher and engine run, up to the
\* summary call
ConcurrentSearchAnswers(r, answer) ==
    /\ concurrent[r].pc = "search"
    /\ LET found == distinctCategoriesWithConfidence(answer)
       IN  /\ concurrent' =
                  [concurrent EXCEPT
                      ![r].pc = "summary",
                      ![r].results = answer,
                      ![r].skillGaps =
                          analyzeSkillGapsForCategories(found,
                              concurrent[r].userSkillListWithLevels)]
           /\ skill_taxonomy' = taxonomyAfterAnalysis(skill_taxonomy, found)
    /\ UNCHANGED outsideConcurrent

\* the provider call request r waits for fails: analyzeSkillGaps throws
ConcurrentProviderFails(r, m) ==
    /\ concurrent[r].pc \in {"profile", "embedding", "search"}
    /\ LET error == IF concurrent[r].pc = "embedding" THEN EmbeddingError(m)
                    ELSE SearchError(m)
       IN  concurrent' =
               [concurrent EXCEPT
                   ![r].pc = "done",
                   ![r].failed = [stage |-> concurrent[r].pc, error |-> error],
                   ![r].response = caught("service", error)]
    /\ UNCHANGED <<skill_taxonomy, outsideConcurrent>>

\* the summary call of request r answers or fails: analyzeSkillGaps returns
ConcurrentSummaryEnds(r, summary) ==
    /\ concurrent[r].pc = "summary"
    /\ concurrent' =
           [concurrent EXCEPT
               ![r].pc = "done",
               ![r].response =
                   [kind |-> "returned", value |-> "object", success |-> TRUE,
                    analysis |-> concurrent[r].skillGaps, summary |-> summary,
                    categories_analyzed |->
                        Len(distinctCategoriesWithConfidence(concurrent[r].results))]]
    /\ UNCHANGED <<skill_taxonomy, outsideConcurrent>>

ConcurrentNext ==
    \E r \in 1..NumRequests :
        \/ ConcurrentCall(r)
        \/ \E skills \in ConcurrentSkillMaps : ConcurrentProfileFound(r, skills)
        \/ ConcurrentEmbeddingAnswers(r)
        \/ \E answer \in ConcurrentAnswers : ConcurrentSearchAnswers(r, answer)
        \/ \E m \in ProviderMessages : ConcurrentProviderFails(r, m)
        \/ \E summary \in {"generated", FALLBACK_SUMMARY} : ConcurrentSummaryEnds(r, summary)

ConcurrentSpec == ConcurrentInit /\ [][ConcurrentNext]_vars

(***************************************************************************)
(* Seeding of the skill-embedding collection (scripts/seedTaxonomy.js).    *)
(* A run is one process: every await is a step, a failure ends the process *)
(* before its upsert.  The embedding of a text is a function of the text;  *)
(* a text is the pair of the category and the skill it is built from.      *)
(***************************************************************************)
embedText(text) == [embedding |-> text]

\* the point seedSkillTaxonomy pushes for a skill
seedPoint(skillId, category, skill) ==
    [id |-> skillId,
     vector |-> embedText(<<category.category, skill>>),
     payload |-> [category |-> category.category, skill |-> skill,
                  content |-> <<category.category, skill>>]]

\* skillId++ without the increment
nextSkillId_stuck(skillId) == skillId

\* skillId++
nextSkillId(skillId) == skillId + 1

\* qdrant.upsert: a point takes the place of the stored point of its id
upsert(stored, points) ==
    {q \in stored : \A k \in 1..Len(points) : points[k].id # q.id} \cup Range(points)

\* the loops of seedSkillTaxonomy start, or the upsert is next if the
\* taxonomy has no skill to embed
seedLoop(run) ==
    LET inhabited == {i \in 1..Len(skill_taxonomy) : skill_taxonomy[i].skills # <<>>}
    IN  IF inhabited = {}
        THEN [pc |-> "upsert", run |-> run, category |-> 1, skill |-> 1,
              points |-> <<>>, skillId |-> 1]
        ELSE [pc |-> "embedText", run |-> run,
              category |-> CHOOSE i \in inhabited : \A j \in inhabited : i <= j,
              skill |-> 1, points |-> <<>>, skillId |-> 1]

\* the script is run: seedSkillTaxonomy runs up to getCollections
SeedStarts ==
    /\ seeder.pc \in {"idle", "done", "exited"}
    /\ seeder.run < MaxSeedRuns
    /\ seeder' = [SeederIdle EXCEPT !.pc = "getCollections", !.run = seeder.run + 1]
    /\ UNCHANGED <<skill_embeddings, outsideSeeder>>

\* ensureCollection: getCollections answers
CollectionsListed ==
    /\ seeder.pc = "getCollections"
    /\ seeder' = IF skill_embeddings.exists THEN seedLoop(seeder.run)
                 ELSE [seeder EXCEPT !.pc = "createCollection"]
    /\ UNCHANGED <<skill_embeddings, outsideSeeder>>

\* ensureCollection: createCollection answers
CollectionCreated ==
    /\ seeder.pc = "createCollection"
    /\ skill_embeddings' = [skill_embeddings EXCEPT !.exists = TRUE]
    /\ seeder' = seedLoop(seeder.run)
    /\ UNCHANGED outsideSeeder

\* embedText answers for the skill at hand: its point is pushed and the
\* loops go on to the next skill, or to the upsert
SkillEmbedded ==
    /\ seeder.pc = "embedText"
    /\ LET category == skill_taxonomy[seeder.category]
           points == Append(seeder.points,
                            seedPoint(seeder.skillId, category, category.skills[seeder.skill]))
           later == {i \in (seeder.category + 1)..Len(skill_taxonomy) :
                        skill_taxonomy[i].skills # <<>>}
       IN  seeder' =
               IF seeder.skill < Len(category.skills)
               THEN [seeder EXCEPT !.skill = @ + 1, !.points = points,
                                   !.skillId = nextSkillId(@)]
               ELSE IF later # {}
               THEN [seeder EXCEPT !.category = CHOOSE i \in later : \A j \in later : i <= j,
                                   !.skill = 1, !.points = points,
                                   !.skillId = nextSkillId(@)]
               ELSE [seeder EXCEPT !.pc = "upsert", !.points = points,
                                   !.skillId = nextSkillId(@)]
    /\ UNCHANGED <<skill_embeddings, outsideSeeder>>

\* qdrant.upsert answers: the run is over
PointsUpserted ==
    /\ seeder.pc = "upsert"
    /\ skill_embeddings' = [skill_embeddings EXCEPT !.points = upsert(@, seeder.points)]
    /\ seeder' = [seeder EXCEPT !.pc = "done"]
    /\ UNCHANGED outsideSeeder

\* the call the run waits for fails: process.exit(1)
SeedingFails ==
    /\ seeder.pc \in {"getCollections", "createCollection", "embedText", "upsert"}
    /\ seeder' = [seeder EXCEPT !.pc = "exited"]
    /\ UNCHANGED <<skill_embeddings, outsideSeeder>>

SeedNext ==
    \/ SeedStarts
    \/ CollectionsListed
    \/ CollectionCreated
    \/ SkillEmbedded
    \/ PointsUpserted
    \/ SeedingFails

SeedSpec == Init /\ [][SeedNext]_vars

(***************************************************************************)
(* The loop of analyzeSkillGapsForCategories over the skills of one        *)
(* taxonomy category, one turn at a time, for a user skill map.  found     *)
(* keeps what findUserSkill returned in each turn.                         *)
(***************************************************************************)
ResolverSkillMaps == UserSkillMaps \cup {
    << <<<<"j", "s">>, "expert">> >>,
    << <<<<"j", "s">>, "beginner">>, <<<<"J", "a", "v", "a", "S", "c", "r", "i", "p", "t">>, "">> >>,
    << <<<<"r", "e", "a", "c", "t", " ", "n", "a", "t", "i", "v", "e">>, "expert">>, <<<<"r", "e", "a", "c", "t", "j", "s">>, "beginner">> >>,
    << <<<<"c">>, "beginner">>, <<<<"C", "I", "C", "D">>, "intermediate">> >>,
    << <<<<"n", "o", "d", "e">>, "beginner">> >>,
    << <<<<"n", "o", "d", "e">>, "expert">>, <<<<"j", "s">>, "beginner">>, <<<<"N", "o", "d", "e", "j", "s">>, "intermediate">> >>,
    << <<<<"G", "i", "t">>, "beginner">>, <<<<"L", "i", "n", "u", "x", "B", "a", "s", "h">>, "expert">>, <<<<"R">>, "intermediate">> >> }

\* the user skill map after a call of findUserSkill that removes the user
\* skill it returned
userSkillsAfterLookup_consumesMatch(userSkills, skillFound) ==
    IF skillFound = Null THEN userSkills
    ELSE SelectSeq(userSkills, LAMBDA entry : entry[1] # skillFound.name)

\* the user skill map after a call of findUserSkill: the function assigns
\* to its own skillName only
userSkillsAfterLookup(userSkills, skillFound) == userSkills

ResolverInit ==
    /\ RequestInit
    /\ skill_taxonomy = skill_taxonomy_js
    /\ scorer = ScorerIdle
    /\ concurrent = ConcurrentIdle
    /\ seeder = SeederIdle
    /\ skill_embeddings = NoCollection
    /\ resolver \in [userSkills : ResolverSkillMaps, category : 1..Len(skill_taxonomy_js),
                     skill : {1}, found : {<<>>}, skills : {emptySkills}]
    /\ aligner = AlignerIdle
    /\ ProfilesInit

\* one turn of the loop: the skill at hand is looked up and classified
ResolveSkill ==
    /\ resolver.skill <= Len(skill_taxonomy[resolver.category].skills)
    /\ LET skill == skill_taxonomy[resolver.category].skills[resolver.skill]
           skillFound == findUserSkill(skill, resolver.userSkills)
       IN  resolver' = [resolver EXCEPT
                            !.skill = @ + 1,
                            !.found = Append(@, skillFound),
                            !.skills = classifySkill(@, skill, resolver.userSkills),
                            !.userSkills = userSkillsAfterLookup(@, skillFound)]
    /\ UNCHANGED outsideResolver

ResolverNext == ResolveSkill

ResolverSpec == ResolverInit /\ [][ResolverNext]_vars

(***************************************************************************)
(* The loop of analyzeSkillGapsForCategories over the detected categories, *)
(* one turn at a time.  matchResults keeps what findMatchingTaxonomyCategory*)
(* returned in each turn.  Reading .category of a null taxonomyCategory    *)
(* throws a TypeError, which ends the loop.                                *)
(***************************************************************************)
AlignerCategories == DetectedCategories \cup {<<"W", "e", "b", " ", "D", "e", "v", "e", "l", "o", "p", "m", "e", "n", "t", " ", "D", "a", "t", "a", "b", "a", "s", "e", "s">>}

AlignerSkillMaps == {
    <<>>,
    << <<<<"j", "s">>, "guru">>, <<<<"A", "u", "t", "h", "e", "n", "t", "i", "c", "a", "t", "i", "o", "n">>, "">>, <<<<"h", "t", "m", "l">>, "beginner">>,
       <<<<"r", "e", "a", "c", "t", "j", "s">>, "intermediate">> >> }

AlignerInit ==
    /\ RequestInit
    /\ skill_taxonomy = skill_taxonomy_js
    /\ scorer = ScorerIdle
    /\ concurrent = ConcurrentIdle
    /\ seeder = SeederIdle
    /\ skill_embeddings = NoCollection
    /\ resolver = ResolverIdle
    /\ ProfilesInit
    /\ \E n \in 0..MaxNeighbours : \E names \in [1..n -> AlignerCategories] :
       \E skills \in AlignerSkillMaps :
           aligner = [AlignerIdle EXCEPT
                          !.categories = [k \in 1..n |->
                                             [category |-> names[k], confidence |-> 90]],
                          !.userSkills = skills]

\* one turn of the loop: the detected category is aligned, then skipped or
\* analysed
AlignCategory ==
    /\ ~aligner.threw
    /\ aligner.turn <= Len(aligner.categories)
    /\ LET categoryInfo == aligner.categories[aligner.turn]
           matchResult == findMatchingTaxonomyCategory(categoryInfo.category)
           throws == ~lowSimilarity(matchResult) /\ matchResult.category = NoCategory
       IN  aligner' = [aligner EXCEPT
                           !.turn = @ + 1,
                           !.matchResults = Append(@, matchResult),
                           !.threw = throws,
                           !.analysis = IF throws THEN @
                                        ELSE analyzeCategory(@, categoryInfo,
                                                             aligner.userSkills)]
    /\ UNCHANGED outsideAligner

AlignerNext == AlignCategory

AlignerSpec == AlignerInit /\ [][AlignerNext]_vars

(***************************************************************************)
(* User profiles (services/userProfileService.js and the two routes of     *)
(* index.js).  Each call of createUserProfile is made once, for an         *)
(* authenticated user id and the name of the request body; its awaits are  *)
(* its steps, so calls interleave there.  Date.now() is the clock, which   *)
(* may or may not have advanced between two readings.                      *)
(***************************************************************************)
UserIds == {"u1", "u2"}

\* the names of the request bodies; one of them is spelled as a user id
UserNames == {"Ann", "u1"}

\* existingProfileId = null; the ids of the points are positive
NoProfileId == 0

\* id: existingProfileId || Date.now()
pointId(existingProfileId, now) ==
    IF existingProfileId # NoProfileId THEN existingProfileId ELSE now

\* the filter key of fetchUserProfileByName
profileFilterKey == "user_name"

\* the points a search of user_profiles filtered by key = value may return
\* as its first
matching(key, value) == {point \in user_profiles : point.payload[key] = value}

\* POST /user-profile: createUserProfile is called and runs up to its search
CreateCall(r, user_id, name) ==
    /\ creators[r].pc = "idle"
    /\ creators' = [creators EXCEPT ![r] =
                        [pc |-> "search", user_id |-> user_id, name |-> name]]
    /\ UNCHANGED <<user_profiles, clock, lookup, outsideProfiles>>

\* the search by user_id answers with no point or with existing[0]
CreateSearchAnswers(r, existingProfileId) ==
    /\ creators[r].pc = "search"
    /\ LET existing == matching("user_id", creators[r].user_id)
       IN  IF existing = {} THEN existingProfileId = NoProfileId
           ELSE existingProfileId \in {point.id : point \in existing}
    /\ creators' = [creators EXCEPT ![r] =
                        [pc |-> "embedText", user_id |-> @.user_id, name |-> @.name,
                         existingProfileId |-> existingProfileId]]
    /\ UNCHANGED <<user_profiles, clock, lookup, outsideProfiles>>

\* embedText answers: the point is built and the upsert is issued
CreateEmbedded(r) ==
    /\ creators[r].pc = "embedText"
    /\ creators' = [creators EXCEPT ![r] =
                        [pc |-> "upsert", user_id |-> @.user_id, name |-> @.name,
                         point |-> [id |-> pointId(@.existingProfileId, clock),
                                    payload |-> [user_id |-> @.user_id,
                                                 user_name |-> @.name]]]]
    /\ UNCHANGED <<user_profiles, clock, lookup, outsideProfiles>>

\* the upsert answers: createUserProfile has succeeded
CreateUpserted(r) ==
    /\ creators[r].pc = "upsert"
    /\ user_profiles' = upsert(user_profiles, <<creators[r].point>>)
    /\ creators' = [creators EXCEPT ![r] =
                        [pc |-> "done", user_id |-> @.user_id, name |-> @.name,
                         point |-> @.point]]
    /\ UNCHANGED <<clock, lookup, outsideProfiles>>

\* the call createUserProfile waits for fails: it throws
CreateFails(r) ==
    /\ creators[r].pc \in {"search", "embedText", "upsert"}
    /\ creators' = [creators EXCEPT ![r] =
                        [pc |-> "failed", user_id |-> @.user_id, name |-> @.name]]
    /\ UNCHANGED <<user_profiles, clock, lookup, outsideProfiles>>

\* a millisecond passes
Tick ==
    /\ clock <= MaxClock
    /\ clock' = clock + 1
    /\ UNCHANGED <<user_profiles, creators, lookup, outsideProfiles>>

\* POST /analyze-skill-gaps: analyzeSkillGaps(req.user.id) runs up to its
\* profile search; created tells if a createUserProfile of the user had
\* succeeded by then
LookupCall(user_id) ==
    /\ lookup.pc = "idle"
    /\ lookup' = [pc |-> "profile", name |-> user_id,
                  created |-> \E r \in 1..NumCreators :
                                  creators[r].pc = "done" /\ creators[r].user_id = user_id]
    /\ UNCHANGED <<user_profiles, creators, clock, outsideProfiles>>

\* the profile search of fetchUserProfileByName answers; without a profile
\* the route answers 404
LookupAnswers ==
    /\ lookup.pc = "profile"
    /\ LET existing == matching(profileFilterKey, lookup.name)
       IN  lookup' = [pc |-> "done", name |-> lookup.name, created |-> lookup.created,
                      found |-> existing # {},
                      status |-> IF existing = {}
                                 THEN httpStatus([kind |-> "returned", value |-> "null"])
                                 ELSE 200]
    /\ UNCHANGED <<user_profiles, creators, clock, outsideProfiles>>

ProfilesNext ==
    \/ \E r \in 1..NumCreators : \E user_id \in UserIds : \E name \in UserNames :
           CreateCall(r, user_id, name)
    \/ \E r \in 1..NumCreators :
           \E id \in {NoProfileId} \cup {point.id : point \in user_profiles} :
               CreateSearchAnswers(r, id)
    \/ \E r \in 1..NumCreators : CreateEmbedded(r)
    \/ \E r \in 1..NumCreators : CreateUpserted(r)
    \/ \E r \in 1..NumCreators : CreateFails(r)
    \/ Tick
    \/ \E user_id \in UserIds : LookupCall(user_id)
    \/ LookupAnswers

ProfilesSpec == Init /\ [][ProfilesNext]_vars

(***************************************************************************)
(* Properties                                                              *)
(***************************************************************************)
\* the names of the entries of one of the lists gaps, present, needs_improvement
namesOf(list) == [i \in 1..Len(list) |-> list[i].name]

\* how often x occurs in the sequence s
occurrences(s, x) == Cardinality({i \in 1..Len(s) : s[i] = x})

\* the taxonomy categories named name
categoriesNamed(name) ==
    {skill_taxonomy[i] : i \in {k \in 1..Len(skill_taxonomy) : skill_taxonomy[k].category = name}}

\* C1: Partition law.  In every entry of the analysis, each skill of the
\* matched taxonomy category occurs exactly once in gaps, present and
\* needs_improvement taken together, and the three lengths add up to the
\* number of skills of that category.
C1_PartitionLaw ==
    \A k \in 1..Len(skillGaps) :
        LET entry == skillGaps[k]
            all == namesOf(entry.skills.gaps) \o namesOf(entry.skills.present)
                     \o namesOf(entry.skills.needs_improvement)
        IN  \A taxonomyCategory \in categoriesNamed(entry.matched_taxonomy_category) :
                /\ \A i \in 1..Len(taxonomyCategory.skills) :
                       occurrences(all, taxonomyCategory.skills[i]) = 1
                /\ Len(entry.skills.gaps) + Len(entry.skills.present)
                     + Len(entry.skills.needs_improvement) = Len(taxonomyCategory.skills)

\* an entry whose three lists are all inhabited
C1_Witness ==
    \E k \in 1..Len(skillGaps) :
        /\ skillGaps[k].skills.gaps # <<>>
        /\ skillGaps[k].skills.present # <<>>
        /\ skillGaps[k].skills.needs_improvement # <<>>

\* C2: the 0.7 alignment threshold is inclusive.  A detected category whose
\* best taxonomy similarity is below 0.7 has no entry in the analysis, one
\* whose best similarity is 0.7 or more has exactly one, and every entry has
\* similarity >= 0.7.
C2_ThresholdInclusive ==
    /\ \A i \in 1..Len(categories) :
           LET best == findMatchingTaxonomyCategory(categories[i].category).similarity
               entries == {k \in 1..Len(skillGaps) :
                              skillGaps[k].detected_category = categories[i].category}
           IN  Cardinality(entries) = IF 10 * best[1] >= 7 * best[2] THEN 1 ELSE 0
    /\ \A k \in 1..Len(skillGaps) :
           10 * skillGaps[k].similarity[1] >= 7 * skillGaps[k].similarity[2]

\* a category at 3/4 has its entry and a category at 2/3 has none
C2_Witness ==
    /\ \E i \in 1..Len(categories) :
           /\ findMatchingTaxonomyCategory(categories[i].category).similarity = <<2, 3>>
           /\ \A k \in 1..Len(skillGaps) :
                  skillGaps[k].detected_category # categories[i].category
    /\ \E k \in 1..Len(skillGaps) : skillGaps[k].similarity = <<3, 4>>

\* C3: when the Category Matcher returns the empty sequence, the analysis is
\* the empty sequence and the request ends by returning it (the service path
\* in its result object, the standalone path in its file), not by an error.
C3_EmptyMatchEmptyAnalysis ==
    [][/\ (pc = "search" /\ pc' # "search" /\ failed' = NoFailure /\ categories' = <<>>)
          => /\ skillGaps' = <<>>
             /\ path = "service" => pc' = "summary"
             /\ path = "standalone" =>
                  /\ response' = [kind |-> "returned", value |-> "undefined"]
                  /\ file' = [written |-> TRUE, content |-> <<>>]
       /\ (pc = "summary" /\ pc' = "done" /\ categories = <<>>)
          => /\ response'.kind = "returned"
             /\ response'.value = "object"
             /\ response'.analysis = <<>>]_vars

\* the service path has returned the empty analysis of a search without neighbours
C3_Witness ==
    /\ pc = "done"
    /\ path = "service"
    /\ failed = NoFailure
    /\ response.kind = "returned"
    /\ response.value = "object"
    /\ results = <<>>
    /\ response.analysis = <<>>

\* C4: classification by level.  In every entry, a skill of the matched
\* taxonomy category that the Skill Resolver matches is in needs_improvement
\* when its level is "beginner", in present with the advance-to-expert
\* recommendation when its level is "intermediate", and in present with the
\* strong-skill recommendation for every other level; it is in no other
\* list, and never in gaps.
C4_LevelClassification ==
    \A k \in 1..Len(skillGaps) :
        \A taxonomyCategory \in categoriesNamed(skillGaps[k].matched_taxonomy_category) :
            \A i \in 1..Len(taxonomyCategory.skills) :
                LET skill == taxonomyCategory.skills[i]
                    skillFound == findUserSkill(skill, userSkillListWithLevels)
                    lists == skillGaps[k].skills
                    entry(recommendation) ==
                        [name |-> skill, user_level |-> skillFound.level,
                         recommendation |-> recommendation]
                IN  skillFound # Null =>
                        /\ occurrences(namesOf(lists.gaps), skill) = 0
                        /\ skillFound.level = "beginner" =>
                               /\ occurrences(lists.needs_improvement,
                                      entry("Focus on intermediate concepts and practice")) = 1
                               /\ occurrences(namesOf(lists.present), skill) = 0
                        /\ skillFound.level = "intermediate" =>
                               /\ occurrences(lists.present,
                                      entry("Consider advancing to expert level")) = 1
                               /\ occurrences(namesOf(lists.needs_improvement), skill) = 0
                        /\ skillFound.level \notin {"beginner", "intermediate"} =>
                               /\ occurrences(lists.present,
                                      entry("Strong skill - can mentor others")) = 1
                               /\ occurrences(namesOf(lists.needs_improvement), skill) = 0

\* an entry with a beginner skill, an intermediate skill, and skills of an
\* unrecognized and of an empty level
C4_Witness ==
    \E k \in 1..Len(skillGaps) :
        LET lists == skillGaps[k].skills
        IN  /\ \E i \in 1..Len(lists.needs_improvement) :
                   lists.needs_improvement[i].user_level = "beginner"
            /\ \E i \in 1..Len(lists.present) : lists.present[i].user_level = "intermediate"
            /\ \E i \in 1..Len(lists.present) : lists.present[i].user_level = "guru"
            /\ \E i \in 1..Len(lists.present) : lists.present[i].user_level = ""

\* C5: in every entry whose taxonomy category has no skill that resolves in
\* the user's skill map, as is the case of every entry when the map is
\* empty, present and needs_improvement are empty and gaps lists the skills
\* of the category, each once, each with priority "high".
C5_UnresolvedCategoryIsAllGaps ==
    \A k \in 1..Len(skillGaps) :
        \A taxonomyCategory \in categoriesNamed(skillGaps[k].matched_taxonomy_category) :
            (\/ userSkillListWithLevels = <<>>
             \/ \A i \in 1..Len(taxonomyCategory.skills) :
                    findUserSkill(taxonomyCategory.skills[i], userSkillListWithLevels) = Null)
            => /\ skillGaps[k].skills.present = <<>>
               /\ skillGaps[k].skills.needs_improvement = <<>>
               /\ skillGaps[k].skills.gaps =
                      [i \in 1..Len(taxonomyCategory.skills) |->
                          [name |-> taxonomyCategory.skills[i], priority |-> "high"]]

\* entries of an empty skill map, and of an inhabited one that resolves nothing
C5_Witness ==
    /\ skillGaps # <<>>
    /\ userSkillListWithLevels # <<>>
    /\ \A k \in 1..Len(skillGaps) :
           /\ skillGaps[k].skills.present = <<>>
           /\ skillGaps[k].skills.needs_improvement = <<>>

\* C6: the analysis has one entry per detected category that aligns, in the
\* order of the Category Matcher, each with the confidence of its detected
\* category.
C6_OneEntryPerAlignedCategoryInOrder ==
    LET aligned ==
            SelectSeq(categories,
                      LAMBDA c : LET best == findMatchingTaxonomyCategory(c.category).similarity
                                 IN  10 * best[1] >= 7 * best[2])
    IN  /\ Len(skillGaps) = Len(aligned)
        /\ \A k \in 1..Len(skillGaps) :
               /\ skillGaps[k].detected_category = aligned[k].category
               /\ skillGaps[k].confidence = aligned[k].confidence

\* two entries of different confidence
C6_Witness ==
    /\ Len(skillGaps) = 2
    /\ skillGaps[1].confidence # skillGaps[2].confidence
    /\ skillGaps[1].matched_taxonomy_category # skillGaps[2].matched_taxonomy_category

\* C7: no invented names.  In every entry, matched_taxonomy_category names a
\* category of the taxonomy and every name in gaps, present and
\* needs_improvement is the name of a skill of that category, as declared.
C7_NoInventedNames ==
    \A k \in 1..Len(skillGaps) :
        /\ categoriesNamed(skillGaps[k].matched_taxonomy_category) # {}
        /\ \A taxonomyCategory \in categoriesNamed(skillGaps[k].matched_taxonomy_category) :
               Range(namesOf(skillGaps[k].skills.gaps) \o namesOf(skillGaps[k].skills.present)
                       \o namesOf(skillGaps[k].skills.needs_improvement))
                   \subseteq Range(taxonomyCategory.skills)

\* a taxonomy skill reported present that the user names differently, in an
\* entry for a detected category that is not the taxonomy's name
C7_Witness ==
    \E k \in 1..Len(skillGaps) :
        /\ skillGaps[k].detected_category # skillGaps[k].matched_taxonomy_category
        /\ \E i \in 1..Len(skillGaps[k].skills.present) :
               ~hasKey(userSkillListWithLevels, skillGaps[k].skills.present[i].name)

\* C8: no silent swallowing.  A request whose embedding call or vector
\* search failed ends, on either path, in an error delivered to its caller
\* that is the provider's error itself.
C8_ProviderFailurePropagatesUnmodified ==
    (pc = "done" /\ failed.stage \in {"embedding", "search"})
        => response = [kind |-> "error", error |-> failed.error]

\* C9: the error of a failed analyze request identifies the stage.  Two
\* failed service requests, one at the embedding call and one at the vector
\* search, whose provider errors carry the same message, deliver different
\* errors to their callers.
C9_ErrorIdentifiesStage ==
    (/\ pc = "done"
     /\ path = "service"
     /\ failed.stage \in {"embedding", "search"}
     /\ lastFailure.stage \in {"embedding", "search"}
     /\ lastFailure.stage # failed.stage
     /\ lastFailure.error.message = failed.error.message)
        => /\ response.kind = "error"
           /\ lastFailure.response.kind = "error"
           /\ response.error # lastFailure.response.error

\* C10: the Category Matcher returns one entry per category name among the
\* retrieved neighbours, no name twice and no other name, each with the
\* greatest score of the neighbours of that name.
C10_DistinctCategoriesWithMaxScore ==
    /\ {categories[i].category : i \in 1..Len(categories)}
           = {results[j].payload.category : j \in 1..Len(results)}
    /\ \A i, j \in 1..Len(categories) :
           categories[i].category = categories[j].category => i = j
    /\ \A i \in 1..Len(categories) :
           LET scores == {results[j].score :
                             j \in {n \in 1..Len(results) :
                                       results[n].payload.category = categories[i].category}}
           IN  /\ categories[i].confidence \in scores
               /\ \A x \in scores : x <= categories[i].confidence

\* two neighbours of one category, the better one first
C10_Witness ==
    /\ Len(results) = 2
    /\ results[1].payload.category = results[2].payload.category
    /\ results[1].score > results[2].score
    /\ Len(categories) = 1

\* C11: similarity is 1 for two strings that are equal after lowercasing
\* and removing every character that is neither a word character nor
\* whitespace; so for a string and itself, the empty string included.
C11_EqualAfterNormalizingIsOne ==
    scorer.called =>
        /\ stripPunctuation(toLowerCase(scorer.str1)) = stripPunctuation(toLowerCase(scorer.str2))
               => scorer.similarity = <<1, 1>>
        /\ scorer.str1 = scorer.str2 => scorer.similarity = <<1, 1>>

\* similarity("Web Development", "web development!!") has returned 1
C11_Witness ==
    /\ scorer.called
    /\ scorer.str1 = <<"W", "e", "b", " ", "D", "e", "v", "e", "l", "o", "p", "m", "e", "n", "t">>
    /\ scorer.str2 = <<"w", "e", "b", " ", "d", "e", "v", "e", "l", "o", "p", "m", "e", "n", "t", "!", "!">>
    /\ scorer.similarity = <<1, 1>>

\* C12: the containment rule fires before the Jaccard rule.  For two strings
\* whose normalized forms differ and of which one contains the other the
\* similarity is 0.9; so it is for s and s followed by " extra".
C12_ContainmentBeforeJaccard ==
    scorer.called =>
        LET s1 == stripPunctuation(toLowerCase(scorer.str1))
            s2 == stripPunctuation(toLowerCase(scorer.str2))
        IN  /\ (s1 # s2 /\ (includes(s1, s2) \/ includes(s2, s1)))
                   => scorer.similarity = <<9, 10>>
            /\ scorer.str2 = scorer.str1 \o <<" ", "e", "x", "t", "r", "a">> => scorer.similarity = <<9, 10>>

\* similarity(s, s + " extra") has returned 0.9 where the Jaccard index is 2/3
C12_Witness ==
    /\ scorer.called
    /\ scorer.str1 = <<"W", "e", "b", " ", "D", "e", "v", "e", "l", "o", "p", "m", "e", "n", "t">>
    /\ scorer.str2 = scorer.str1 \o <<" ", "e", "x", "t", "r", "a">>
    /\ scorer.similarity = <<9, 10>>

\* C13: similarity is total and bounded.  Every call returns a quotient with
\* a positive denominator (not 0/0), between 0 and 1.
C13_SimilarityDefinedAndBounded ==
    scorer.called =>
        /\ scorer.similarity[2] > 0
        /\ 0 <= scorer.similarity[1]
        /\ scorer.similarity[1] <= scorer.similarity[2]

\* the Jaccard rule has been applied to two strings of whitespace only
C13_Witness ==
    /\ scorer.called
    /\ scorer.str1 = <<" ">>
    /\ scorer.str2 = <<"\t">>
    /\ scorer.similarity = <<1, 1>>

\* C14: concurrent requests do not interfere.  Whatever the interleaving,
\* the taxonomy all requests share stays as shipped, and the analysis and
\* the response of each request are those of its own skill map and its own
\* search answer.
C14_RequestsDoNotInterfere ==
    /\ skill_taxonomy = skill_taxonomy_js
    /\ \A r \in 1..NumRequests :
           LET request == concurrent[r]
               alone == analyzeSkillGapsForCategories(
                            distinctCategoriesWithConfidence(request.results),
                            request.userSkillListWithLevels)
           IN  /\ request.pc = "summary" => request.skillGaps = alone
               /\ (request.pc = "done" /\ request.failed = NoFailure)
                      => /\ request.response.kind = "returned"
                         /\ request.response.analysis = alone
               /\ (request.pc = "done" /\ request.failed # NoFailure)
                      => request.response = caught("service", request.failed.error)

\* two requests in flight together, each with an analysis, for different
\* skill maps
C14_Witness ==
    /\ concurrent[1].pc = "summary"
    /\ concurrent[2].pc = "summary"
    /\ concurrent[1].skillGaps # <<>>
    /\ concurrent[2].skillGaps # <<>>
    /\ concurrent[1].userSkillListWithLevels # concurrent[2].userSkillListWithLevels
    /\ concurrent[1].results # concurrent[2].results

\* the <<category, skill>> pairs of the taxonomy in declaration order
declaredSkills ==
    LET RECURSIVE from(_)
        from(i) ==
            IF i > Len(skill_taxonomy) THEN <<>>
            ELSE [j \in 1..Len(skill_taxonomy[i].skills) |->
                     <<skill_taxonomy[i].category, skill_taxonomy[i].skills[j]>>] \o from(i + 1)
    IN  from(1)

\* C15: seeding is idempotent with deterministic ids.  The points of a run
\* have the ids 1, 2, ... in declaration order of the taxonomy, and the
\* collection, once a run has upserted, holds exactly one record per
\* declared skill, with the id of its place in that order, however many runs
\* have upserted.
C15_SeedingIdempotent ==
    /\ \A k \in 1..Len(seeder.points) :
           /\ seeder.points[k].id = k
           /\ <<seeder.points[k].payload.category, seeder.points[k].payload.skill>>
                  = declaredSkills[k]
    /\ skill_embeddings.points # {} =>
           skill_embeddings.points =
               {[id |-> k,
                 vector |-> embedText(declaredSkills[k]),
                 payload |-> [category |-> declaredSkills[k][1],
                              skill |-> declaredSkills[k][2],
                              content |-> declaredSkills[k]]] : k \in 1..Len(declaredSkills)}
    /\ seeder.pc = "done" => skill_embeddings.points # {}

\* a second run has upserted into the collection the first run seeded
C15_Witness ==
    /\ seeder.run = 2
    /\ seeder.pc = "done"
    /\ Len(seeder.points) = 27
    /\ Cardinality(skill_embeddings.points) = 27

\* the name of the k-th skill of the category being analysed
resolvedName(k) == skill_taxonomy[resolver.category].skills[k]

\* the shorter and the longer of two lengths
shorter(s, t) == IF Len(s) < Len(t) THEN Len(s) ELSE Len(t)

longer(s, t) == IF Len(s) < Len(t) THEN Len(t) ELSE Len(s)

\* C16: direct lookup wins.  Whenever the punctuation-stripped skill name is
\* a key of the user skill map, the resolver returns that key with the level
\* stored under it, whatever the level is and whatever other entries would
\* match fuzzily.
C16_DirectLookupWins ==
    \A k \in 1..Len(resolver.found) :
        LET key == stripPunctuation(resolvedName(k))
        IN  hasKey(resolver.userSkills, key)
                => resolver.found[k] =
                       [name |-> key, level |-> valueOf(resolver.userSkills, key)]

\* C17: first above threshold wins.  When the stripped skill name is not a
\* key of the map, the resolver returns the first user skill, in insertion
\* order, whose score is at least 0.7, and null if there is none.
C17_FirstAboveThresholdWins ==
    \A k \in 1..Len(resolver.found) :
        LET key == stripPunctuation(resolvedName(k))
            map == resolver.userSkills
            reaching == {i \in 1..Len(map) :
                            similarityScore(toLowerCase(key), toLowerCase(map[i][1])) >= 7}
        IN  ~hasKey(map, key)
                => IF reaching = {} THEN resolver.found[k] = Null
                   ELSE LET first == CHOOSE i \in reaching : \A j \in reaching : i <= j
                        IN  resolver.found[k] = [name |-> map[first][1], level |-> map[first][2]]

\* a skill resolved to a user skill although a later entry of the map scores
\* higher
C17_Witness ==
    \E k \in 1..Len(resolver.found) :
        LET key == stripPunctuation(resolvedName(k))
            map == resolver.userSkills
            scoreOf(i) == similarityScore(toLowerCase(key), toLowerCase(map[i][1]))
        IN  /\ ~hasKey(map, key)
            /\ resolver.found[k] # Null
            /\ \E i \in 1..Len(map) :
                   /\ map[i][1] = resolver.found[k].name
                   /\ \E j \in (i + 1)..Len(map) : scoreOf(j) > scoreOf(i)

\* skillName has nothing to do with any user skill of the map: it is no key,
\* no user skill is its synonym, and neither contains the other, case apart
unrelated(skillName, map) ==
    /\ ~hasKey(map, skillName)
    /\ \A i \in 1..Len(map) :
           LET skillNameLower == toLowerCase(skillName)
               userSkillLower == toLowerCase(map[i][1])
           IN  /\ ~areSkillsSimilar(skillNameLower, userSkillLower)
               /\ ~includes(userSkillLower, skillNameLower)
               /\ ~includes(skillNameLower, userSkillLower)

\* C18 as stated: the resolver returns null for a taxonomy skill that is no
\* key of the user skill map, no synonym of a user skill and in no substring
\* relation with one, and the skill is reported as a gap.
C18_NullWhenUnrelated ==
    \A k \in 1..Len(resolver.found) :
        unrelated(resolvedName(k), resolver.userSkills)
            => /\ resolver.found[k] = Null
               /\ \E g \in 1..Len(resolver.skills.gaps) :
                      resolver.skills.gaps[g].name = resolvedName(k)

\* C18 amended: the resolver returns null for a taxonomy skill whose
\* punctuation-stripped name is no key of the user skill map, no synonym of
\* a user skill and in no substring relation with one, and the skill is
\* reported as a gap under its taxonomy name.
C18_NullWhenStrippedUnrelated ==
    \A k \in 1..Len(resolver.found) :
        unrelated(stripPunctuation(resolvedName(k)), resolver.userSkills)
            => /\ resolver.found[k] = Null
               /\ \E g \in 1..Len(resolver.skills.gaps) :
                      resolver.skills.gaps[g].name = resolvedName(k)

\* a skill with punctuation in its name was not found in a map that has
\* skills, and is a gap
C18_Witness ==
    \E k \in 1..Len(resolver.found) :
        /\ resolver.userSkills # <<>>
        /\ stripPunctuation(resolvedName(k)) # resolvedName(k)
        /\ unrelated(stripPunctuation(resolvedName(k)), resolver.userSkills)
        /\ resolver.found[k] = Null
        /\ \E g \in 1..Len(resolver.skills.gaps) :
               resolver.skills.gaps[g].name = resolvedName(k)

\* C19: the substring rule counts substantial matches only.  For a skill
\* whose stripped name is no key of the map: a user skill in a substring
\* relation with it whose shorter length is at least 2 and at least 0.3 of
\* the longer resolves it; if no user skill is a synonym and every
\* containment fails one of the two conditions, it is not resolved; and a
\* user skill it is resolved to is a synonym or a substantial containment.
C19_SubstantialSubstringOnly ==
    \A k \in 1..Len(resolver.found) :
        LET key == stripPunctuation(resolvedName(k))
            map == resolver.userSkills
            lower == toLowerCase(key)
            user(i) == toLowerCase(map[i][1])
            contains(i) == includes(user(i), lower) \/ includes(lower, user(i))
            substantial(i) ==
                /\ shorter(lower, user(i)) >= 2
                /\ 10 * shorter(lower, user(i)) >= 3 * longer(lower, user(i))
            synonym(i) == areSkillsSimilar(lower, user(i))
        IN  ~hasKey(map, key)
                => /\ (\E i \in 1..Len(map) : contains(i) /\ substantial(i))
                          => resolver.found[k] # Null
                   /\ (\A i \in 1..Len(map) : ~synonym(i) /\ (contains(i) => ~substantial(i)))
                          => resolver.found[k] = Null
                   /\ resolver.found[k] # Null
                          => \E i \in 1..Len(map) :
                                 /\ map[i][1] = resolver.found[k].name
                                 /\ synonym(i) \/ (contains(i) /\ substantial(i))

\* a skill resolved by a containment of ratio exactly 0.3, after user skills
\* it contains that are too short for it
C19_Witness ==
    \E k \in 1..Len(resolver.found) :
        LET key == stripPunctuation(resolvedName(k))
            map == resolver.userSkills
            lower == toLowerCase(key)
            user(i) == toLowerCase(map[i][1])
        IN  /\ ~hasKey(map, key)
            /\ resolver.found[k] # Null
            /\ \E i \in 1..Len(map) :
                   /\ map[i][1] = resolver.found[k].name
                   /\ ~areSkillsSimilar(lower, user(i))
                   /\ includes(lower, user(i))
                   /\ 10 * shorter(lower, user(i)) = 3 * longer(lower, user(i))
                   /\ \E j \in 1..(i - 1) :
                          /\ includes(lower, user(j))
                          /\ 10 * shorter(lower, user(j)) < 3 * longer(lower, user(j))

\* C20: the resolver consumes nothing.  A turn of the loop leaves the user
\* skill map as it was, and what was returned for each skill so far is what
\* findUserSkill returns for that skill and the map alone.
C20_ResolverConsumesNothing ==
    [][/\ resolver'.userSkills = resolver.userSkills
       /\ \A k \in 1..Len(resolver'.found) :
              resolver'.found[k] = findUserSkill(resolvedName(k), resolver.userSkills)]_vars

\* one user skill was returned for two skills of the category
C20_Witness ==
    \E k1, k2 \in 1..Len(resolver.found) :
        /\ k1 # k2
        /\ resolver.found[k1] # Null
        /\ resolver.found[k1] = resolver.found[k2]

\* the similarity of the detected category of turn k to taxonomy category i
similarityTo(k, i) ==
    calculateStringSimilarity(aligner.categories[k].category, skill_taxonomy[i].category)

\* C21: the Taxonomy Aligner returns the maximum of the similarities to the
\* taxonomy categories together with a category attaining it, the one
\* declared first if several attain it.
C21_AlignerReturnsFirstMaximum ==
    \A k \in 1..Len(aligner.matchResults) :
        LET matchResult == aligner.matchResults[k]
        IN  /\ \A i \in 1..Len(skill_taxonomy) :
                   ~Less(matchResult.similarity, similarityTo(k, i))
            /\ \E i \in 1..Len(skill_taxonomy) :
                   /\ matchResult.category = skill_taxonomy[i]
                   /\ ~Less(similarityTo(k, i), matchResult.similarity)
                   /\ \A j \in 1..(i - 1) : Less(similarityTo(k, j), matchResult.similarity)

\* the number of detected categories skipped so far for low similarity
skipped ==
    Cardinality({k \in 1..Len(aligner.matchResults) : lowSimilarity(aligner.matchResults[k])})

\* C22: local heuristic misses never throw.  The loop over the detected
\* categories raises no error, and every detected category it has gone
\* through was skipped or has its entry in the analysis, whose skills are
\* all classified.
C22_MissesNeverThrow ==
    /\ ~aligner.threw
    /\ Len(aligner.analysis) + skipped = aligner.turn - 1
    /\ \A e \in 1..Len(aligner.analysis) :
           LET skills == aligner.analysis[e].skills
           IN  Len(skills.gaps) + Len(skills.present) + Len(skills.needs_improvement)
                   = Len((CHOOSE c \in categoriesNamed(
                                 aligner.analysis[e].matched_taxonomy_category) : TRUE).skills)

\* the loop went through a list with a category similar to no taxonomy
\* category and one that is aligned, for a map with an empty level and one
\* that is none of the three known ones
C22_Witness ==
    /\ aligner.turn = Len(aligner.categories) + 1
    /\ aligner.userSkills # <<>>
    /\ \E k \in 1..Len(aligner.matchResults) : aligner.matchResults[k].category = NoCategory
    /\ \E e \in 1..Len(aligner.analysis) : aligner.analysis[e].skills.gaps # <<>>

\* C27: the analysis loop never dereferences a missing aligned category.
\* findMatchingTaxonomyCategory returns a null category only together with
\* similarity 0; a detected category whose similarity is not below 0.7 has
\* a taxonomy category, and reading its name and skills does not throw.
C27_NoNullCategoryPastThreshold ==
    /\ ~aligner.threw
    /\ \A k \in 1..Len(aligner.matchResults) :
           LET matchResult == aligner.matchResults[k]
           IN  /\ matchResult.category = NoCategory => matchResult.similarity[1] = 0
               /\ ~Less(matchResult.similarity, ALIGNMENT_THRESHOLD)
                      => /\ matchResult.category # NoCategory
                         /\ matchResult.category \in Range(skill_taxonomy)

\* a null category was returned in one turn and a category past the
\* threshold in another
C27_Witness ==
    /\ \E k \in 1..Len(aligner.matchResults) :
           /\ aligner.matchResults[k].category = NoCategory
           /\ aligner.matchResults[k].similarity[1] = 0
    /\ \E k \in 1..Len(aligner.matchResults) :
           ~Less(aligner.matchResults[k].similarity, ALIGNMENT_THRESHOLD)
    /\ aligner.analysis # <<>>

\* the network calls of a request in the order of its awaits
stages == <<"profile", "embedding", "search", "summary">>

\* C23: the stages of a request are strictly ordered and fully awaited.  A
\* call is issued only after every call before it has answered, in the
\* order profile, embedding, search, summary; categories are aligned and
\* skills resolved only after the search has answered; and when the caller
\* has its result or error no call of the request is pending.
C23_StagesOrderedAndAwaited ==
    /\ Len(network) <= (IF path = "service" THEN 4 ELSE 3)
    /\ \A k \in 1..Len(network) : network[k].call = stages[k]
    /\ \A k \in 1..(Len(network) - 1) : network[k].state \in {"answered", "empty"}
    /\ (categories # <<>> \/ skillGaps # <<>>)
           => Len(network) >= 3 /\ network[3].state = "answered"
    /\ response # Pending
           => /\ pc = "done"
              /\ \A k \in 1..Len(network) : network[k].state # "pending"
    /\ response = Pending /\ pc # "idle"
           => network # <<>> /\ network[Len(network)].state = "pending"

\* a service request delivered an analysis after its four calls answered
C23_Witness ==
    /\ path = "service"
    /\ pc = "done"
    /\ Len(network) = 4
    /\ \A k \in 1..4 : network[k].state = "answered"
    /\ skillGaps # <<>>
    /\ response.kind = "returned"

\* C28: in the response of analyzeSkillGaps, categories_analyzed is the
\* number of category entries in analysis.
C28_CategoriesAnalyzedCountsAnalysis ==
    (response.kind = "returned" /\ response.value = "object")
        => response.categories_analyzed = Len(response.analysis)

\* C29: a failure of the summary call never fails the analysis.  When the
\* chat completion has failed, analyzeSkillGaps returns success with the
\* analysis of the detected categories, the response it returns when the
\* completion answers with the summary replaced by the fixed text.
C29_SummaryFailureKeepsAnalysis ==
    (pc = "done" /\ Len(network) = 4 /\ network[4].state = "failed")
        => /\ response = [success("generated") EXCEPT !.summary = FALLBACK_SUMMARY]
           /\ response.success
           /\ response.analysis =
                  analyzeSkillGapsForCategories(categories, userSkillListWithLevels)

\* the summary call failed for an analysis with an entry
C29_Witness ==
    /\ pc = "done"
    /\ Len(network) = 4
    /\ network[4].state = "failed"
    /\ skillGaps # <<>>
    /\ response.kind = "returned"
    /\ response.summary = FALLBACK_SUMMARY

\* C30: when the profile search finds no profile the request ends there:
\* no embedding, search or summary call is issued, analyzeSkillGaps returns
\* null and the route answers 404; a second call is issued only after the
\* profile search has answered with a profile.
C30_NoProfileNoCalls ==
    /\ (network # <<>> /\ network[1].state = "empty")
           => /\ Len(network) = 1
              /\ pc = "done"
              /\ path = "service"
                     => /\ response = [kind |-> "returned", value |-> "null"]
                        /\ httpStatus(response) = 404
    /\ Len(network) >= 2 => network[1].state = "answered"

\* a service request found no profile
C30_Witness ==
    /\ path = "service"
    /\ pc = "done"
    /\ network = <<[call |-> "profile", state |-> "empty"]>>
    /\ httpStatus(response) = 404

\* C25: profile lookup consistency.  An analyze request of a user made
\* after a createUserProfile of that user has succeeded finds a profile,
\* whatever name the profile was created with: the route does not answer
\* 404.
C25_CreatedProfileIsFound ==
    (lookup.pc = "done" /\ lookup.created) => lookup.found /\ lookup.status # 404

\* C26: create-or-update keeps one profile per user.  The collection holds
\* at most one point per user_id, and the point a succeeded call wrote for
\* its user stays a point of that user.
C26_OneProfilePerUser ==
    /\ \A point1, point2 \in user_profiles :
           point1.payload.user_id = point2.payload.user_id => point1 = point2
    /\ \A r \in 1..NumCreators :
           creators[r].pc = "done"
               => \E point \in user_profiles :
                      /\ point.id = creators[r].point.id
                      /\ point.payload.user_id = creators[r].user_id

\* C24: a user skill map with a key equal to the declared name of a
\* taxonomy skill resolves that skill: the resolver returns non-null for it
\* and the skill is not reported as a gap.
C24_ExactKeyAlwaysResolves ==
    \A k \in 1..Len(resolver.found) :
        hasKey(resolver.userSkills, resolvedName(k))
            => /\ resolver.found[k] # Null
               /\ \A g \in 1..Len(resolver.skills.gaps) :
                      resolver.skills.gaps[g].name # resolvedName(k)

====
